---- MODULE Spec2Model ----
(***************************************************************************)
(* A model of the sqlite3_ext binding layer: the Error/Result model        *)
(* (src/src/types.rs), the function registration and aggregate trampolines *)
(* (src/src/function/mod.rs), the entry-point macros                       *)
(* (src/sqlite3_ext/sqlite3_ext_macro/src/lib.rs) and the best_index_in    *)
(* scenario of src/tests/vtab/index_info.rs.                               *)
(*                                                                         *)
(* Each component has its own specification over the shared variables:     *)
(*   SpecErr   from_sqlite and into_sqlite                                 *)
(*   SpecAgg   the four aggregate trampolines on one aggregate group       *)
(*   SpecExt   macro expansion and the generated entry point               *)
(*   SpecReg   create_scalar_function / create_aggregate_function          *)
(*   SpecVtab  best_index / filter for an IN query                         *)
(***************************************************************************)
EXTENDS Integers, Sequences, FiniteSets, TLC

VARIABLES
    from_call,      \* the last Error::from_sqlite call: its rc and its Result
    into_call,      \* the last Error::into_sqlite call: error, slot before/after, return
    agg,            \* the group's aggregate context memory: the F state, if constructed
    agg_result,     \* what the last trampoline reported through set_result
    agg_phase,      \* "live", "finalized", or "aborted" (a trampoline panicked)
    agg_hist,       \* the callbacks the engine has made on the group so far
    expansion,      \* what the entry-point macro expanded to, with its inputs
    entry_call,     \* the last call of the generated entry point
    functions,      \* the connection's functions, as the engine registered them
    reg_call,       \* the last create_*_function call
    query,          \* the IN query being run on the virtual table, and its plan
    num_filter,     \* Hooks::num_filter: calls of the filter hook
    filter_args     \* the argument lists the filter hook received, in order

errVars == <<from_call, into_call>>
aggVars == <<agg, agg_result, agg_phase, agg_hist>>
extVars == <<expansion, entry_call>>
regVars == <<functions, reg_call>>
vtabVars == <<query, num_filter, filter_args>>
vars == <<errVars, aggVars, extVars, regVars, vtabVars>>

(***************************************************************************)
(* Bounds of the model.                                                    *)
(***************************************************************************)
\* Longest message carried by Error::Module, in bytes.
MaxMsgLen == 2
\* Status codes 0..MaxRc are enumerated (besides ROW, DONE and the i32 extremes).
MaxRc == 12

(***************************************************************************)
(* Engine constants (ffi).                                                 *)
(***************************************************************************)
SQLITE_OK == 0
SQLITE_ERROR == 1
SQLITE_NOMEM == 7
SQLITE_MISUSE == 21
SQLITE_ROW == 100
SQLITE_DONE == 101
SQLITE_OK_LOAD_PERMANENTLY == 256

\* rc is an i32 (types.rs:41).
I32Max == 2147483647
I32Min == (-I32Max) - 1

\* The status codes the model feeds to from_sqlite: i32 values.
StatusCodes ==
    (0 .. MaxRc) \cup {-1, SQLITE_MISUSE, 99, SQLITE_ROW, SQLITE_DONE, 102,
                       SQLITE_OK_LOAD_PERMANENTLY, I32Min, I32Max}

(***************************************************************************)
(* enum Error.  A value is a record [kind, n, s]: n is the integer payload *)
(* (the code of Sqlite, the version of VersionNotSatisfied, the position   *)
(* of Utf8Error / NulError), s the byte string of Module.                  *)
(***************************************************************************)
Bytes == {0, 97, 98}

ByteStrings == UNION {[1 .. n -> Bytes] : n \in 0 .. MaxMsgLen}

ErrSqlite(code) == [kind |-> "Sqlite", n |-> code, s |-> <<>>]
ErrUtf8(pos) == [kind |-> "Utf8Error", n |-> pos, s |-> <<>>]
ErrNul(pos) == [kind |-> "NulError", n |-> pos, s |-> <<>>]
ErrVersion(v) == [kind |-> "VersionNotSatisfied", n |-> v, s |-> <<>>]
ErrModule(str) == [kind |-> "Module", n |-> 0, s |-> str]
ErrNoChange == [kind |-> "NoChange", n |-> 0, s |-> <<>>]

Error ==
    {ErrSqlite(c) : c \in {SQLITE_ERROR, SQLITE_NOMEM, SQLITE_MISUSE, SQLITE_OK, I32Min}}
        \cup {ErrUtf8(p) : p \in 0 .. 1}
        \cup {ErrNul(p) : p \in 0 .. 1}
        \cup {ErrVersion(v) : v \in {3007015, 3014000, 3038005}}
        \cup {ErrModule(str) : str \in ByteStrings}
        \cup {ErrNoChange}

\* Result<()>
Ok == [ok |-> TRUE, err |-> ErrNoChange]
Err(e) == [ok |-> FALSE, err |-> e]

(***************************************************************************)
(* Error::from_sqlite (types.rs:41-46).                                    *)
(***************************************************************************)
\* Faulty variant: only SQLITE_OK counts as success.
from_sqlite_only_ok(rc) ==
    IF rc = SQLITE_OK THEN Ok ELSE Err(ErrSqlite(rc))

from_sqlite(rc) ==
    IF rc \in {SQLITE_OK, SQLITE_ROW, SQLITE_DONE}
    THEN Ok
    ELSE Err(ErrSqlite(rc))

(***************************************************************************)
(* impl Display for Error (types.rs:81-92), the arms into_sqlite formats.  *)
(* A rendered message is [fmt, args]: the format string and its arguments; *)
(* Module renders as the user's bytes themselves.                          *)
(***************************************************************************)
Display(e) ==
    CASE e.kind = "Utf8Error" ->
            [fmt |-> "invalid utf-8 sequence from index {}", args |-> <<e.n>>]
      [] e.kind = "NulError" ->
            [fmt |-> "nul byte found in provided data at position: {}", args |-> <<e.n>>]
      [] e.kind = "Module" ->
            [fmt |-> "{}", args |-> e.s]
      [] e.kind = "VersionNotSatisfied" ->
            [fmt |-> "requires SQLite version {}.{}.{} or above",
             args |-> <<e.n \div 1000000, (e.n \div 1000) % 1000, e.n % 1000>>]
      [] e.kind = "NoChange" ->
            [fmt |-> "invalid Error::NoChange", args |-> <<>>]

\* The text has a NUL byte before its end: only the bytes of a "{}" rendering
\* are text bytes (the other arguments are numbers printed in decimal).
HasInteriorNul(m) ==
    m.fmt = "{}" /\ \E i \in 1 .. Len(m.args) : m.args[i] = 0

\* ffi::str_to_sqlite3: copy the text into an engine-allocated C string.  It
\* fails when the engine cannot allocate or the text has an interior NUL.
str_to_sqlite3(m, allocOk) ==
    IF allocOk /\ ~HasInteriorNul(m)
    THEN [ok |-> TRUE, ptr |-> m]
    ELSE [ok |-> FALSE, ptr |-> m]

\* What a message slot (*msg) can hold before the call.
NullSlot == [fmt |-> "<null>", args |-> <<>>]
StaleSlot == [fmt |-> "<stale>", args |-> <<>>]
\* The placeholder empty message "".
EmptyMsg == [fmt |-> "", args |-> <<>>]

(***************************************************************************)
(* Error::into_sqlite (types.rs:48-64).  msgNull: msg.is_null(); slot: the *)
(* content of *msg before the call (meaningless when msgNull).  Yields the *)
(* returned code and the content of *msg after the call.                   *)
(***************************************************************************)
\* Faulty variant: every kind, Sqlite included, is downgraded to SQLITE_ERROR + message.
into_sqlite_downgrade_all(e, msgNull, slot, allocOk) ==
    [ret |-> SQLITE_ERROR,
     slot |-> IF e.kind = "Sqlite" THEN EmptyMsg
              ELSE IF str_to_sqlite3(Display(e), allocOk).ok
                   THEN str_to_sqlite3(Display(e), allocOk).ptr
                   ELSE slot]

\* Faulty variant: a failed rendering stores the placeholder empty message.
into_sqlite_placeholder(e, msgNull, slot, allocOk) ==
    IF e.kind = "Sqlite"
    THEN [ret |-> e.n, slot |-> slot]
    ELSE [ret |-> SQLITE_ERROR,
          slot |-> IF msgNull THEN slot
                   ELSE IF str_to_sqlite3(Display(e), allocOk).ok
                        THEN str_to_sqlite3(Display(e), allocOk).ptr
                        ELSE EmptyMsg]

into_sqlite(e, msgNull, slot, allocOk) ==
    IF e.kind = "Sqlite"
    THEN [ret |-> e.n, slot |-> slot]
    ELSE [ret |-> SQLITE_ERROR,
          slot |-> IF ~msgNull /\ str_to_sqlite3(Display(e), allocOk).ok
                   THEN str_to_sqlite3(Display(e), allocOk).ptr
                   ELSE slot]

(***************************************************************************)
(* The error model's state machine: calls of the two conversions.          *)
(***************************************************************************)
NoFromCall == [called |-> FALSE, rc |-> 0, ret |-> Ok]
NoIntoCall ==
    [called |-> FALSE, e |-> ErrNoChange, msgNull |-> TRUE, allocOk |-> TRUE,
     before |-> NullSlot, after |-> NullSlot, ret |-> 0]

CallFromSqlite ==
    \E rc \in StatusCodes :
        /\ from_call' = [called |-> TRUE, rc |-> rc, ret |-> from_sqlite(rc)]
        /\ UNCHANGED <<into_call, aggVars, extVars, regVars, vtabVars>>

CallIntoSqlite ==
    \E e \in Error, msgNull \in BOOLEAN, allocOk \in BOOLEAN,
       slot \in {NullSlot, StaleSlot} :
        LET r == into_sqlite(e, msgNull, slot, allocOk) IN
        /\ into_call' = [called |-> TRUE, e |-> e, msgNull |-> msgNull,
                         allocOk |-> allocOk, before |-> slot,
                         after |-> r.slot, ret |-> r.ret]
        /\ UNCHANGED <<from_call, aggVars, extVars, regVars, vtabVars>>

NextErr == CallFromSqlite \/ CallIntoSqlite

(***************************************************************************)
(* Aggregate functions (function/mod.rs).  F is a user aggregate: a state  *)
(* [n, failed] counting its rows; its step cannot fail, so a bad row is    *)
(* stored in the state and returned by value (mod.rs:15-23).               *)
(***************************************************************************)
\* Callbacks the engine makes on one aggregate group.
MaxCalls == 4

\* Self::Return values reported through set_result.
ResOk(v) == [kind |-> "ok", val |-> v]
ResErr == [kind |-> "err", val |-> 0]
NoResult == [kind |-> "none", val |-> 0]

\* const DEFAULT_VALUE: Self::Return
DEFAULT_VALUE == 0

\* F::default()
F_default == [n |-> 0, failed |-> FALSE]
\* fn step(&mut self, context, args): a row the aggregate cannot take is
\* remembered, since step has no way to fail.
F_step(s, bad) == [n |-> s.n + 1, failed |-> s.failed \/ bad]
\* fn inverse(&mut self, context, args)
F_inverse(s, bad) == [s EXCEPT !.n = s.n - 1]
\* fn value(&self, context) -> Result<Self::Return>
F_value(s) == IF s.failed THEN ResErr ELSE ResOk(s.n)

\* The group's context memory before any trampoline touched it.
NoAgg == [exists |-> FALSE, state |-> F_default, constructed |-> 0]

\* InternalContext::aggregate_context::<F>(): locate the group's state, or
\* allocate it in the engine's aggregate memory and default-construct it;
\* Err when the engine cannot allocate.
aggregate_context(a, allocOk) ==
    IF a.exists
    THEN [ok |-> TRUE, agg |-> a]
    ELSE IF allocOk
         THEN [ok |-> TRUE,
               agg |-> [exists |-> TRUE, state |-> F_default,
                        constructed |-> a.constructed + 1]]
         ELSE [ok |-> FALSE, agg |-> a]

\* InternalContext::try_aggregate_context::<F>(): look the state up, never
\* allocating.
try_aggregate_context(a) == [some |-> a.exists, agg |-> a]

(***************************************************************************)
(* The trampolines.  Each yields the context memory after the call, the    *)
(* result it set (NoResult when it set none), whether it ran F::value, and *)
(* whether it panicked (unwrap of a failed aggregate_context).             *)
(***************************************************************************)
Outcome(a, res, ranValue, panicked) ==
    [agg |-> a, result |-> res, ranValue |-> ranValue, panicked |-> panicked]

\* aggregate_step (mod.rs:93-103)
aggregate_step(a, allocOk, bad) ==
    LET r == aggregate_context(a, allocOk) IN
    IF r.ok
    THEN Outcome([r.agg EXCEPT !.state = F_step(r.agg.state, bad)],
                 NoResult, FALSE, FALSE)
    ELSE Outcome(a, NoResult, FALSE, TRUE)

\* Faulty variant: final locates-or-constructs the state and always asks it for value.
aggregate_final_constructs(a) ==
    LET r == aggregate_context(a, TRUE) IN
    Outcome(r.agg, F_value(r.agg.state), TRUE, FALSE)

\* aggregate_final (mod.rs:105-113)
aggregate_final(a) ==
    LET r == try_aggregate_context(a) IN
    IF r.some
    THEN Outcome(a, F_value(r.agg.state), TRUE, FALSE)
    ELSE Outcome(a, ResOk(DEFAULT_VALUE), FALSE, FALSE)

\* aggregate_value (mod.rs:115-123)
aggregate_value(a, allocOk) ==
    LET r == aggregate_context(a, allocOk) IN
    IF r.ok
    THEN Outcome(r.agg, F_value(r.agg.state), TRUE, FALSE)
    ELSE Outcome(a, NoResult, FALSE, TRUE)

\* Faulty variant: inverse works on a freshly constructed state instead of
\* the one the group already has.
aggregate_inverse_fresh_state(a, allocOk, bad) ==
    IF allocOk \/ a.exists
    THEN Outcome([exists |-> TRUE, state |-> F_inverse(F_default, bad),
                  constructed |-> a.constructed + 1],
                 NoResult, FALSE, FALSE)
    ELSE Outcome(a, NoResult, FALSE, TRUE)

\* aggregate_inverse (mod.rs:125-135)
aggregate_inverse(a, allocOk, bad) ==
    LET r == aggregate_context(a, allocOk) IN
    IF r.ok
    THEN Outcome([r.agg EXCEPT !.state = F_inverse(r.agg.state, bad)],
                 NoResult, FALSE, FALSE)
    ELSE Outcome(a, NoResult, FALSE, TRUE)

(***************************************************************************)
(* The engine's calls on one group.  agg_hist counts them and keeps what   *)
(* the last one did.                                                       *)
(***************************************************************************)
NoHist ==
    [steps |-> 0, values |-> 0, inverses |-> 0, last |-> "none",
     ranValue |-> FALSE, stepFailed |-> FALSE, before |-> NoAgg]

Calls == agg_hist.steps + agg_hist.values + agg_hist.inverses

\* The state after a trampoline returned o (or panicked).
Apply(o, name, hist) ==
    /\ agg' = o.agg
    /\ agg_result' = IF o.result = NoResult THEN agg_result ELSE o.result
    /\ agg_phase' = IF o.panicked THEN "aborted"
                    ELSE IF name = "final" THEN "finalized" ELSE "live"
    /\ agg_hist' = [hist EXCEPT !.last = name, !.ranValue = o.ranValue,
                                !.before = agg]
    /\ UNCHANGED <<errVars, extVars, regVars, vtabVars>>

Step ==
    /\ agg_phase = "live"
    /\ Calls < MaxCalls
    /\ \E allocOk \in BOOLEAN, bad \in BOOLEAN :
        Apply(aggregate_step(agg, allocOk, bad), "step",
              [agg_hist EXCEPT !.steps = @ + 1,
                               !.stepFailed = @ \/ bad \/ (~agg.exists /\ ~allocOk)])

Value ==
    /\ agg_phase = "live"
    /\ Calls < MaxCalls
    /\ \E allocOk \in BOOLEAN :
        Apply(aggregate_value(agg, allocOk), "value",
              [agg_hist EXCEPT !.values = @ + 1])

Inverse ==
    /\ agg_phase = "live"
    /\ Calls < MaxCalls
    /\ \E allocOk \in BOOLEAN, bad \in BOOLEAN :
        Apply(aggregate_inverse(agg, allocOk, bad), "inverse",
              [agg_hist EXCEPT !.inverses = @ + 1])

Final ==
    /\ agg_phase = "live"
    /\ Apply(aggregate_final(agg), "final", agg_hist)

NextAgg == Step \/ Value \/ Inverse \/ Final

(***************************************************************************)
(* The entry-point macros (sqlite3_ext_macro/src/lib.rs).  Identifiers and *)
(* crate names are sequences of one-character strings.                     *)
(***************************************************************************)
\* Longest crate name enumerated (besides the name My-Extension_2).
MaxNameLen == 2
\* Longest directive list written in an attribute.
MaxDirectives == 2

UpperCase ==
    <<"A", "B", "C", "D", "E", "F", "G", "H", "I", "J", "K", "L", "M",
      "N", "O", "P", "Q", "R", "S", "T", "U", "V", "W", "X", "Y", "Z">>
LowerCase ==
    <<"a", "b", "c", "d", "e", "f", "g", "h", "i", "j", "k", "l", "m",
      "n", "o", "p", "q", "r", "s", "t", "u", "v", "w", "x", "y", "z">>

IsUpper(c) == \E i \in 1 .. 26 : UpperCase[i] = c
IsLower(c) == \E i \in 1 .. 26 : LowerCase[i] = c

\* str::to_lowercase, on ASCII text
to_lowercase(str) ==
    [i \in 1 .. Len(str) |->
        IF IsUpper(str[i])
        THEN LowerCase[CHOOSE k \in 1 .. 26 : UpperCase[k] = str[i]]
        ELSE str[i]]

\* Faulty variant: digits survive the stripping, Regex::new("[^a-z0-9]").
strip_keep_digits(str) ==
    SelectSeq(str, LAMBDA c : IsLower(c) \/ c \in {"0", "1", "2", "3"})

\* Regex::new("[^a-z]").unwrap().replace_all(&export_base, "")  (lib.rs:37)
strip_non_lower(str) == SelectSeq(str, IsLower)

\* format_ident!("sqlite3_{}_init", export_base)  (lib.rs:38)
init_ident(export_base) ==
    <<"s", "q", "l", "i", "t", "e", "3", "_">> \o export_base
        \o <<"_", "i", "n", "i", "t">>

\* Directives of the attribute: export = <ident>, persistent, or a token
\* that is neither keyword.
DirExport(ident) == [kw |-> "export", value |-> ident]
DirPersistent == [kw |-> "persistent", value |-> <<>>]
DirOther == [kw |-> "other", value |-> <<>>]

\* impl Parse for ExtAttr (lib.rs:170-181): a token that is neither keyword
\* is a parse error of the attribute.
ParsesAsExtAttr(d) == d.kw \in {"export", "persistent"}

\* The loop over the directives (lib.rs:86-103): acc is [export, persistent,
\* dup]; the loop returns at the first repeated export.
RECURSIVE ScanDirectives(_, _)
ScanDirectives(ds, acc) ==
    IF ds = <<>> \/ acc.dup
    THEN acc
    ELSE LET d == Head(ds) IN
         IF d.kw = "export"
         THEN IF acc.export.some
              THEN [acc EXCEPT !.dup = TRUE]
              ELSE ScanDirectives(Tail(ds),
                       [acc EXCEPT !.export = [some |-> TRUE, value |-> d.value]])
         ELSE ScanDirectives(Tail(ds), [acc EXCEPT !.persistent = TRUE])

NoDirectives ==
    [export |-> [some |-> FALSE, value |-> <<>>], persistent |-> FALSE, dup |-> FALSE]

\* Faulty variant: persistent loading is returned with no version gate.
load_result_ungated(persistent, exported) ==
    IF ~persistent THEN "SQLITE_OK"
    ELSE IF exported THEN "SQLITE_OK_LOAD_PERMANENTLY"
    ELSE "error"

\* Faulty variant: an unexported persistent extension is let through.
load_result_allow_unexported(persistent, exported) ==
    IF ~persistent THEN "SQLITE_OK"
    ELSE "require_version"

\* let load_result = match persistent { .. }  (lib.rs:107-129): the
\* expression the entry point returns on success, or the configuration error.
load_result(persistent, exported) ==
    IF ~persistent THEN "SQLITE_OK"
    ELSE IF exported THEN "require_version"
    ELSE "error"

CompileError(msg, ds, itemOk) ==
    [kind |-> "error", msg |-> msg, directives |-> ds, itemOk |-> itemOk,
     exported |-> FALSE,
     c_name |-> <<>>, load_result |-> "none", main |-> FALSE, crate_name |-> <<>>]

\* #[sqlite3_ext_init(ds)] on an item (lib.rs:83-159).  itemOk: the item
\* parses as a function; its name is init.
sqlite3_ext_init(ds, itemOk) ==
    LET acc == ScanDirectives(ds, NoDirectives)
        lr == load_result(acc.persistent, acc.export.some)
    IN
    IF \E i \in 1 .. Len(ds) : ~ParsesAsExtAttr(ds[i])
    THEN CompileError("expected export or persistent", ds, itemOk)
    ELSE IF acc.dup
    THEN CompileError("export specified multiple times", ds, itemOk)
    ELSE IF ~itemOk
    THEN CompileError("expected fn", ds, itemOk)
    ELSE IF lr = "error"
    THEN CompileError("unexported extension cannot be persistent", ds, itemOk)
    ELSE [kind |-> "entry", msg |-> "", directives |-> ds, itemOk |-> itemOk,
          exported |-> acc.export.some,
          c_name |-> IF acc.export.some THEN acc.export.value
                     ELSE <<"i", "n", "i", "t", "_", "e", "n", "t", "r", "y">>,
          load_result |-> lr, main |-> FALSE, crate_name |-> <<>>]

\* #[sqlite3_ext_main(attr)] (lib.rs:32-44): the export is named after the
\* crate and the rest is left to sqlite3_ext_init.
sqlite3_ext_main(crate_name, attr, itemOk) ==
    LET export_base == strip_non_lower(to_lowercase(crate_name))
        ident == init_ident(export_base)
    IN
    IF ~itemOk
    THEN [CompileError("expected fn", attr, itemOk) EXCEPT
              !.main = TRUE, !.crate_name = crate_name]
    ELSE [sqlite3_ext_init(<<DirExport(ident)>> \o attr, itemOk) EXCEPT
              !.main = TRUE, !.crate_name = crate_name]

(***************************************************************************)
(* The generated entry point (lib.rs:141-151).                             *)
(***************************************************************************)
\* sqlite3_require_version!(version, expr, fallback): expr when the running
\* engine is at least version, else fallback.
sqlite3_require_version(libversion, version, expr, fallback) ==
    IF libversion >= version THEN expr ELSE fallback

\* ffi::handle_error(e, err_msg): the error model's conversion.
handle_error(e, msgNull, slot, allocOk) == into_sqlite(e, msgNull, slot, allocOk)

\* Faulty variant: the user function runs before the routine table is set.
entry_point_init_first(exp, libversion, userResult, msgNull, slot, allocOk) ==
    IF userResult.ok
    THEN [trace |-> <<"init", "init_api_routines">>,
          slot |-> slot,
          ret |-> IF exp.load_result = "SQLITE_OK" THEN SQLITE_OK
                  ELSE sqlite3_require_version(libversion, 3014000,
                           SQLITE_OK_LOAD_PERMANENTLY, SQLITE_OK)]
    ELSE LET r == handle_error(userResult.err, msgNull, slot, allocOk) IN
         [trace |-> <<"init", "init_api_routines", "handle_error">>,
          slot |-> r.slot,
          ret |-> r.ret]

\* unsafe extern "C" fn #c_name(db, err_msg, api) -> c_int.  trace lists the
\* calls the function makes, in order: init_api_routines(api), the user
\* function, then the version lookup of a gated load result or handle_error.
entry_point(exp, libversion, userResult, msgNull, slot, allocOk) ==
    IF userResult.ok
    THEN [trace |-> IF exp.load_result = "require_version"
                    THEN <<"init_api_routines", "init", "sqlite3_libversion_number">>
                    ELSE <<"init_api_routines", "init">>,
          slot |-> slot,
          ret |-> IF exp.load_result = "SQLITE_OK" THEN SQLITE_OK
                  ELSE IF exp.load_result = "SQLITE_OK_LOAD_PERMANENTLY"
                       THEN SQLITE_OK_LOAD_PERMANENTLY
                  ELSE sqlite3_require_version(libversion, 3014000,
                           SQLITE_OK_LOAD_PERMANENTLY, SQLITE_OK)]
    ELSE LET r == handle_error(userResult.err, msgNull, slot, allocOk) IN
         [trace |-> <<"init_api_routines", "init", "handle_error">>,
          slot |-> r.slot,
          ret |-> r.ret]

\* Inputs of the model.
NameChars == {"M", "y", "-", "2"}
MyExtension2 ==
    <<"M", "y", "-", "E", "x", "t", "e", "n", "s", "i", "o", "n", "_", "2">>
CrateNames ==
    UNION {[1 .. n -> NameChars] : n \in 0 .. MaxNameLen} \cup {MyExtension2}
Directives == {DirExport(<<"f", "o", "o">>), DirPersistent, DirOther}
DirectiveLists == UNION {[1 .. n -> Directives] : n \in 0 .. MaxDirectives}
\* sqlite3_libversion_number() of the running engine
LibVersions == {3007015, 3013999, 3014000, 3014001, 3038005}
\* What the user init function returns; Error is a public enum, so an
\* Error::Sqlite wrapping any code can come back.
UserResults ==
    {Ok, Err(ErrSqlite(SQLITE_NOMEM)), Err(ErrSqlite(SQLITE_OK)),
     Err(ErrModule(<<97>>))}

NotExpanded == CompileError("", <<>>, FALSE)
NoEntryCall ==
    [called |-> FALSE, libversion |-> 0, userResult |-> Ok, msgNull |-> TRUE,
     allocOk |-> TRUE, before |-> NullSlot, after |-> NullSlot, trace |-> <<>>, ret |-> 0]

\* Macro expansion happens once, when the extension is built.
ExpandInit ==
    /\ expansion = NotExpanded
    /\ \E ds \in DirectiveLists, itemOk \in BOOLEAN :
        /\ expansion' = sqlite3_ext_init(ds, itemOk)
        /\ entry_call' = NoEntryCall
        /\ UNCHANGED <<errVars, aggVars, regVars, vtabVars>>

ExpandMain ==
    /\ expansion = NotExpanded
    /\ \E name \in CrateNames, attr \in DirectiveLists, itemOk \in BOOLEAN :
        /\ expansion' = sqlite3_ext_main(name, attr, itemOk)
        /\ entry_call' = NoEntryCall
        /\ UNCHANGED <<errVars, aggVars, regVars, vtabVars>>

\* The engine loads the extension: only an expansion that produced an entry
\* point can be called.
Load ==
    /\ expansion.kind = "entry"
    /\ \E v \in LibVersions, u \in UserResults, msgNull \in BOOLEAN,
          allocOk \in BOOLEAN :
        LET r == entry_point(expansion, v, u, msgNull, NullSlot, allocOk) IN
        /\ entry_call' = [called |-> TRUE, libversion |-> v, userResult |-> u,
                          msgNull |-> msgNull, allocOk |-> allocOk,
                          before |-> NullSlot,
                          after |-> r.slot, trace |-> r.trace, ret |-> r.ret]
        /\ UNCHANGED <<expansion, errVars, aggVars, regVars, vtabVars>>

NextExt == ExpandInit \/ ExpandMain \/ Load

(***************************************************************************)
(* Function registration (function/mod.rs:32-79).  A name is a byte        *)
(* string; the engine reads a C string up to its first NUL byte.           *)
(***************************************************************************)
\* Longest function name registered, in bytes.
MaxFnLen == 2
\* Registration calls made on the connection.
MaxRegs == 2

FnNames == UNION {[1 .. n -> Bytes] : n \in 0 .. MaxFnLen}

\* CString::from_vec_unchecked(name.as_bytes().into()): the bytes with a
\* terminator appended, and no check for a NUL among them.
from_vec_unchecked(bytes) == bytes \o <<0>>

\* What the engine reads at name.as_ptr(): the bytes before the first NUL.
CStrAt(buf) ==
    LET end == CHOOSE i \in 1 .. Len(buf) :
                   buf[i] = 0 /\ \A j \in 1 .. i - 1 : buf[j] # 0
    IN SubSeq(buf, 1, end - 1)

\* sqlite3_create_function_v2 / sqlite3_create_window_function: the engine
\* registers the function under the C string it reads and returns rc, or
\* registers nothing and returns an error code.
EngineCreate(fns, c_name, kind, rc) ==
    IF rc = SQLITE_OK THEN fns \cup {[name |-> c_name, kind |-> kind]} ELSE fns

\* Connection::create_scalar_function (mod.rs:33-55)
create_scalar_function(fns, name, rc) ==
    LET c_name == from_vec_unchecked(name) IN
    [result |-> from_sqlite(rc),
     functions |-> EngineCreate(fns, CStrAt(c_name), "scalar", rc)]

\* Connection::create_aggregate_function (mod.rs:57-78)
create_aggregate_function(fns, name, rc) ==
    LET c_name == from_vec_unchecked(name) IN
    [result |-> from_sqlite(rc),
     functions |-> EngineCreate(fns, CStrAt(c_name), "aggregate", rc)]

NoRegCall ==
    [called |-> FALSE, kind |-> "none", name |-> <<>>, result |-> Ok,
     before |-> {}, count |-> 0]

\* Status codes the engine's registration routines return.
CreateCodes == {SQLITE_OK, SQLITE_NOMEM, SQLITE_MISUSE}

CreateScalarFunction ==
    /\ reg_call.count < MaxRegs
    /\ \E name \in FnNames, rc \in CreateCodes :
        LET r == create_scalar_function(functions, name, rc) IN
        /\ functions' = r.functions
        /\ reg_call' = [called |-> TRUE, kind |-> "scalar", name |-> name,
                        result |-> r.result, before |-> functions,
                        count |-> reg_call.count + 1]
        /\ UNCHANGED <<errVars, aggVars, extVars, vtabVars>>

CreateAggregateFunction ==
    /\ reg_call.count < MaxRegs
    /\ \E name \in FnNames, rc \in CreateCodes :
        LET r == create_aggregate_function(functions, name, rc) IN
        /\ functions' = r.functions
        /\ reg_call' = [called |-> TRUE, kind |-> "aggregate", name |-> name,
                        result |-> r.result, before |-> functions,
                        count |-> reg_call.count + 1]
        /\ UNCHANGED <<errVars, aggVars, extVars, vtabVars>>

NextReg == CreateScalarFunction \/ CreateAggregateFunction

(***************************************************************************)
(* best_index_in (tests/vtab/index_info.rs:30-71): a virtual table whose   *)
(* hooks count the filter calls, queried with                              *)
(*   SELECT COUNT( * ) FROM tbl WHERE a IN (v1, .., vn).                   *)
(* The engine's side (planner and IN loop) follows the engine's contract.  *)
(***************************************************************************)
\* Longest IN list queried.
MaxInList == 3

Literals == {"a1", "b2", "c3"}
InLists == UNION {[1 .. n -> Literals] : n \in 1 .. MaxInList}

\* The cost the planner assumes for a plan whose best_index set none.
DefaultCost == 1000000

\* What the planner hands to best_index before the hook touches it.
FreshIndexInfo(usable) ==
    [usable |-> usable, argv_index |-> [some |-> FALSE, idx |-> 0],
     estimated_cost |-> DefaultCost]

\* Faulty variant: the hook sets the cost and forgets the argv index.
best_index_no_argv(index_info) ==
    IF index_info.usable
    THEN [index_info EXCEPT !.estimated_cost = 1]
    ELSE index_info

\* Hooks::best_index (index_info.rs:41-52)
best_index(index_info) ==
    IF index_info.usable
    THEN [index_info EXCEPT !.argv_index = [some |-> TRUE, idx |-> 0],
                            !.estimated_cost = 1]
    ELSE index_info

\* The planner consults best_index with the IN constraint usable and with
\* it unusable, and keeps the cheaper plan (the first on a tie).
ChoosePlan ==
    LET withIn == best_index(FreshIndexInfo(TRUE))
        without == best_index(FreshIndexInfo(FALSE))
    IN IF withIn.estimated_cost <= without.estimated_cost THEN withIn ELSE without

\* The values the engine tests: the distinct values of the IN list, in the
\* order of the engine's sorted lookup table.
TextRank(x) == CASE x = "a1" -> 1 [] x = "b2" -> 2 [] x = "c3" -> 3 [] OTHER -> 4

RECURSIVE SortedSeq(_)
SortedSeq(S) ==
    IF S = {} THEN <<>>
    ELSE LET m == CHOOSE x \in S : \A y \in S : TextRank(x) <= TextRank(y)
         IN <<m>> \o SortedSeq(S \ {m})

DistinctValues(list) == {list[i] : i \in 1 .. Len(list)}

\* The scans the engine will make: one per distinct value when the plan
\* delivers the constraint to filter, else one full scan with no argument.
Scans(plan, list) ==
    IF plan.argv_index.some
    THEN [i \in 1 .. Cardinality(DistinctValues(list)) |->
              <<SortedSeq(DistinctValues(list))[i]>>]
    ELSE << <<>> >>

NoQuery ==
    [pc |-> "idle", in_list |-> <<>>, plan |-> FreshIndexInfo(FALSE),
     pending |-> <<>>]

\* conn.query_row(..) is prepared: the planner negotiates the plan.
Prepare ==
    /\ query.pc = "idle"
    /\ \E list \in InLists :
        LET plan == ChoosePlan IN
        query' = [pc |-> "running", in_list |-> list, plan |-> plan,
                  pending |-> Scans(plan, list)]
    /\ UNCHANGED <<num_filter, filter_args, errVars, aggVars, extVars, regVars>>

\* Hooks::filter (index_info.rs:54-62), called by the engine for the next scan.
Filter ==
    /\ query.pc = "running"
    /\ query.pending # <<>>
    /\ num_filter' = num_filter + 1
    /\ filter_args' = Append(filter_args, Head(query.pending))
    /\ query' = [query EXCEPT !.pending = Tail(@)]
    /\ UNCHANGED <<errVars, aggVars, extVars, regVars>>

\* The statement has run to completion.
Finish ==
    /\ query.pc = "running"
    /\ query.pending = <<>>
    /\ query' = [query EXCEPT !.pc = "done"]
    /\ UNCHANGED <<num_filter, filter_args, errVars, aggVars, extVars, regVars>>

NextVtab == Prepare \/ Filter \/ Finish

\*@@SECTIONS@@

(***************************************************************************)
(* The state before any call, and the specifications.                      *)
(***************************************************************************)
Init ==
    /\ from_call = NoFromCall
    /\ into_call = NoIntoCall
    /\ agg = NoAgg
    /\ agg_result = NoResult
    /\ agg_phase = "live"
    /\ agg_hist = NoHist
    /\ expansion = NotExpanded
    /\ entry_call = NoEntryCall
    /\ functions = {}
    /\ reg_call = NoRegCall
    /\ query = NoQuery
    /\ num_filter = 0
    /\ filter_args = <<>>

SpecErr == Init /\ [][NextErr]_vars
SpecAgg == Init /\ [][NextAgg]_vars
SpecExt == Init /\ [][NextExt]_vars
SpecReg == Init /\ [][NextReg]_vars
SpecVtab == Init /\ [][NextVtab]_vars

\* C1: for every status code rc, from_sqlite(rc) is Ok when rc is SQLITE_OK,
\* SQLITE_ROW or SQLITE_DONE, and otherwise Err(Error::Sqlite(rc)) with that rc.
C1_FromSqlite ==
    from_call.called =>
        IF from_call.rc \in {0, 100, 101}
        THEN from_call.ret.ok
        ELSE /\ ~from_call.ret.ok
             /\ from_call.ret.err.kind = "Sqlite"
             /\ from_call.ret.err.n = from_call.rc

\* Witness of C1: an error code (SQLITE_MISUSE) came back as Err(Sqlite(21)).
C1_Witness ==
    /\ from_call.called
    /\ from_call.rc = 21
    /\ from_call.ret = Err(ErrSqlite(21))

\* C2: into_sqlite passes the code of Error::Sqlite through and leaves the
\* slot alone; every other kind yields SQLITE_ERROR, a null slot is never
\* written, and whatever is written is the formatted message of the error.
C2_IntoSqlite ==
    into_call.called =>
        IF into_call.e.kind = "Sqlite"
        THEN /\ into_call.ret = into_call.e.n
             /\ into_call.after = into_call.before
        ELSE /\ into_call.ret = 1
             /\ into_call.msgNull => into_call.after = into_call.before
             /\ into_call.after # into_call.before =>
                    into_call.after = Display(into_call.e)
             /\ (~into_call.msgNull
                    /\ str_to_sqlite3(Display(into_call.e), into_call.allocOk).ok) =>
                    into_call.after = Display(into_call.e)

\* Witness of C2: a Module error was rendered into a non-null slot.
C2_Witness ==
    /\ into_call.called
    /\ into_call.e = ErrModule(<<97, 98>>)
    /\ ~into_call.msgNull
    /\ into_call.ret = 1
    /\ into_call.after = [fmt |-> "{}", args |-> <<97, 98>>]

\* The case of C3: a non-native error, a non-null slot, and a rendering of
\* the message into an engine string that failed.
RenderFailed ==
    /\ into_call.called
    /\ into_call.e.kind # "Sqlite"
    /\ ~into_call.msgNull
    /\ ~str_to_sqlite3(Display(into_call.e), into_call.allocOk).ok

\* C3 as claimed: when rendering fails, into_sqlite returns SQLITE_ERROR and
\* the slot ends up holding a placeholder empty message.
C3_Original ==
    RenderFailed => /\ into_call.ret = 1
                    /\ into_call.after = EmptyMsg

\* C3 as amended: when rendering fails, into_sqlite returns SQLITE_ERROR and
\* leaves the slot exactly as it was (no placeholder is written).
C3_SlotUntouched ==
    RenderFailed => /\ into_call.ret = 1
                    /\ into_call.after = into_call.before

\* Witness of C3: a Module message with an interior NUL failed to render
\* into a non-null slot that held a stale pointer.
C3_Witness ==
    /\ RenderFailed
    /\ into_call.e = ErrModule(<<97, 0>>)
    /\ into_call.allocOk
    /\ into_call.before = StaleSlot

\* C4 as claimed: for a group in which step was never called, finalization
\* reports exactly DEFAULT_VALUE, does not run the user's value, constructs
\* no state and reports no error.
C4_Original ==
    (agg_phase = "finalized" /\ agg_hist.steps = 0) =>
        /\ agg_result = ResOk(DEFAULT_VALUE)
        /\ ~agg_hist.ranValue
        /\ agg.constructed = 0

\* C4 as amended: for a group on which none of step, value and inverse was
\* called before finalization, finalization reports exactly DEFAULT_VALUE,
\* does not run the user's value, constructs no state and reports no error.
C4_ZeroCallsDefault ==
    (agg_phase = "finalized" /\ Calls = 0) =>
        /\ agg_result = ResOk(DEFAULT_VALUE)
        /\ agg_result.kind # "err"
        /\ ~agg_hist.ranValue
        /\ ~agg.exists
        /\ agg.constructed = 0

\* Witness of C4: the group was finalized with no earlier callback and
\* reported the default value.
C4_Witness ==
    /\ agg_phase = "finalized"
    /\ agg_hist.last = "final"
    /\ Calls = 0
    /\ agg_result = ResOk(DEFAULT_VALUE)

\* C9: the step trampoline always returns normally, and a failure that arose
\* during a step call is reported as an error by the next value or final.
C9_StepFailuresSurface ==
    /\ agg_hist.last = "step" => agg_phase # "aborted"
    /\ (agg_hist.last \in {"value", "final"} /\ agg_hist.stepFailed) =>
            agg_result.kind = "err"

\* The directives written in the expanded attribute.
HasPersistent(ds) == \E i \in 1 .. Len(ds) : ds[i].kw = "persistent"
ExportCount(ds) == Cardinality({i \in 1 .. Len(ds) : ds[i].kw = "export"})
AllParse(ds) == \A i \in 1 .. Len(ds) : ds[i].kw \in {"export", "persistent"}

\* C5: when the user init function returns Ok, the entry point returns
\* SQLITE_OK if persistent was not requested, SQLITE_OK_LOAD_PERMANENTLY if
\* it was and the engine is at least 3.14.0, and plain SQLITE_OK if it was
\* and the engine is older.
C5_LoadResult ==
    (entry_call.called /\ entry_call.userResult.ok) =>
        entry_call.ret =
            IF ~HasPersistent(expansion.directives) THEN 0
            ELSE IF entry_call.libversion >= 3014000 THEN 256
            ELSE 0

\* Witness of C5: a persistent extension loaded on engine 3.13.999 and the
\* entry point returned plain SQLITE_OK.
C5_Witness ==
    /\ entry_call.called
    /\ entry_call.userResult.ok
    /\ HasPersistent(expansion.directives)
    /\ entry_call.libversion = 3013999
    /\ entry_call.ret = 0

LettersOf(name) ==
    to_lowercase(SelectSeq(name, LAMBDA c : IsUpper(c) \/ IsLower(c)))

\* C7 as claimed: sqlite3_ext_main in a crate named My-Extension_2 derives
\* the export symbol sqlite3_myextension2_init.
C7_Original ==
    (expansion.main /\ expansion.kind = "entry"
        /\ expansion.crate_name = MyExtension2) =>
        expansion.c_name =
            <<"s", "q", "l", "i", "t", "e", "3", "_",
              "m", "y", "e", "x", "t", "e", "n", "s", "i", "o", "n", "2",
              "_", "i", "n", "i", "t">>

\* C7 as amended: the export symbol of sqlite3_ext_main is sqlite3_<name>_init
\* where <name> is the letters of the crate name in lower case, every other
\* character (digits too) being stripped; a crate named My-Extension_2
\* derives sqlite3_myextension_init.
C7_SymbolDerivation ==
    (expansion.main /\ expansion.kind = "entry" /\ ExportCount(expansion.directives) = 1) =>
        LET sym == expansion.c_name
            mid == SubSeq(sym, 9, Len(sym) - 5)
        IN
        /\ Len(sym) >= 13
        /\ SubSeq(sym, 1, 8) = <<"s", "q", "l", "i", "t", "e", "3", "_">>
        /\ SubSeq(sym, Len(sym) - 4, Len(sym)) = <<"_", "i", "n", "i", "t">>
        /\ mid = LettersOf(expansion.crate_name)
        /\ \A i \in 1 .. Len(mid) : IsLower(mid[i])
        /\ expansion.crate_name = MyExtension2 =>
                sym = <<"s", "q", "l", "i", "t", "e", "3", "_",
                        "m", "y", "e", "x", "t", "e", "n", "s", "i", "o", "n",
                        "_", "i", "n", "i", "t">>

\* Witness of C7: the crate My-Extension_2 expanded to an entry point named
\* sqlite3_myextension_init.
C7_Witness ==
    /\ expansion.main
    /\ expansion.kind = "entry"
    /\ expansion.crate_name = MyExtension2
    /\ expansion.c_name =
            <<"s", "q", "l", "i", "t", "e", "3", "_",
              "m", "y", "e", "x", "t", "e", "n", "s", "i", "o", "n",
              "_", "i", "n", "i", "t">>

\* The name given to the last registration has a NUL byte in it.
NameHasNul == \E i \in 1 .. Len(reg_call.name) : reg_call.name[i] = 0

\* C8: create_scalar_function and create_aggregate_function called with a
\* name containing an interior NUL fail with Error::NulError and register
\* nothing; a name without one reaches the engine unchanged.
C8_InteriorNulRejected ==
    reg_call.called =>
        IF NameHasNul
        THEN /\ ~reg_call.result.ok
             /\ reg_call.result.err.kind = "NulError"
             /\ functions = reg_call.before
        ELSE reg_call.result.ok =>
                [name |-> reg_call.name, kind |-> reg_call.kind] \in functions

\* C10: with the argv index assigned and a finite cost set by best_index,
\* filter is invoked once per distinct value of the IN list over the whole
\* statement: exactly twice for IN ('a1', 'b2').
C10_FilterPerValue ==
    /\ query.pc # "idle" => num_filter <= Cardinality(DistinctValues(query.in_list))
    /\ query.pc = "done" =>
        /\ num_filter = Cardinality(DistinctValues(query.in_list))
        /\ query.in_list = <<"a1", "b2">> => num_filter = 2
        /\ \A v \in DistinctValues(query.in_list) :
              Cardinality({i \in 1 .. Len(filter_args) : filter_args[i] = <<v>>}) = 1

\* Witness of C10: the statement with IN ('a1', 'b2') ran to completion and
\* filter was called twice, once with each value.
C10_Witness ==
    /\ query.pc = "done"
    /\ query.in_list = <<"a1", "b2">>
    /\ query.plan.argv_index.some
    /\ num_filter = 2
    /\ filter_args = << <<"a1">>, <<"b2">> >>

\* The positions of a call in the entry point's trace.
TracePos(name) == {i \in 1 .. Len(entry_call.trace) : entry_call.trace[i] = name}

\* The order of the calls in one invocation: the routine table is set first,
\* before the user function and every engine call, and the user function
\* runs exactly once.
ApiInitFirst ==
    /\ Len(entry_call.trace) >= 2
    /\ entry_call.trace[1] = "init_api_routines"
    /\ Cardinality(TracePos("init_api_routines")) = 1
    /\ Cardinality(TracePos("init")) = 1
    /\ \A i \in TracePos("init") : i > 1

\* C11 as claimed: the routine table is initialized before the user init
\* function and any engine call, the user function runs exactly once, and on
\* Err(e) the entry point returns e's converted code, never SQLITE_OK or
\* SQLITE_OK_LOAD_PERMANENTLY, and writes the message into the err_msg slot.
C11_Original ==
    entry_call.called =>
        /\ ApiInitFirst
        /\ ~entry_call.userResult.ok =>
              /\ entry_call.ret \notin {0, 256}
              /\ entry_call.after # entry_call.before

\* C11 as amended: the routine table is initialized before the user init
\* function and any engine call, the user function runs exactly once, and on
\* Err(e) the entry point returns e's own code for Error::Sqlite and
\* SQLITE_ERROR for every other kind, and the err_msg slot receives the
\* formatted message exactly when e is not Error::Sqlite, the slot pointer
\* is non-null and the message renders; otherwise the slot is untouched.
C11_EntryPoint ==
    entry_call.called =>
        /\ ApiInitFirst
        /\ ~entry_call.userResult.ok =>
              LET e == entry_call.userResult.err
                  written == /\ e.kind # "Sqlite"
                             /\ ~entry_call.msgNull
                             /\ entry_call.allocOk
                             /\ ~HasInteriorNul(Display(e))
              IN
              /\ entry_call.trace[Len(entry_call.trace)] = "handle_error"
              /\ entry_call.ret = IF e.kind = "Sqlite" THEN e.n ELSE 1
              /\ e.kind # "Sqlite" => entry_call.ret \notin {0, 256}
              /\ entry_call.after = IF written THEN Display(e)
                                    ELSE entry_call.before

\* Witness of C11: the user function failed with a Module error and the
\* entry point returned SQLITE_ERROR with the message in the slot.
C11_Witness ==
    /\ entry_call.called
    /\ entry_call.userResult = Err(ErrModule(<<97>>))
    /\ ~entry_call.msgNull
    /\ entry_call.trace = <<"init_api_routines", "init", "handle_error">>
    /\ entry_call.ret = 1
    /\ entry_call.after = [fmt |-> "{}", args |-> <<97>>]

\* The state a step, value or inverse call works on: the group's state if
\* it existed before the call, else a default-constructed one.
WorkedOn ==
    IF agg_hist.before.exists THEN agg_hist.before.state ELSE F_default

\* C12: over any sequence of callbacks on one group, a step, value or
\* inverse call that returns has located the state or default-constructed
\* it, the state is constructed at most once so every such call works on
\* the same state, and final only looks the state up: it constructs nothing
\* and runs value exactly when the state already exists.
C12_StateLifecycle ==
    /\ agg.constructed <= 1
    /\ agg.exists <=> agg.constructed = 1
    /\ (agg_hist.last \in {"step", "value", "inverse"} /\ agg_phase # "aborted") =>
          /\ agg.exists
          /\ agg.constructed =
                IF agg_hist.before.exists THEN agg_hist.before.constructed ELSE 1
          /\ agg_hist.last = "step" =>
                /\ agg.state.n = WorkedOn.n + 1
                /\ WorkedOn.failed => agg.state.failed
          /\ agg_hist.last = "inverse" => agg.state = [WorkedOn EXCEPT !.n = @ - 1]
          /\ agg_hist.last = "value" =>
                /\ agg.state = WorkedOn
                /\ agg_hist.ranValue
    /\ agg_hist.last = "final" =>
          /\ agg_phase = "finalized"
          /\ agg = agg_hist.before
          /\ agg_hist.ranValue <=> agg_hist.before.exists
    /\ agg_phase = "aborted" =>
          /\ ~agg_hist.before.exists
          /\ agg = agg_hist.before

\* Witness of C12: a state constructed by a first step was found again by
\* two more calls, and final then ran value on that one state.
C12_Witness ==
    /\ agg_phase = "finalized"
    /\ agg_hist.steps = 2
    /\ agg_hist.inverses = 1
    /\ agg.constructed = 1
    /\ agg.state.n = 1
    /\ agg_hist.ranValue

====
